---- MODULE Spec2Model ----
(***************************************************************************)
(* Speaker-notes generator: the /upload and /process handlers of server.py *)
(* and the conversion pipeline of add_speaker_notes.py.                    *)
(*                                                                         *)
(* Python values are modelled as follows.  A str is a sequence of tokens;  *)
(* the tokens " " and "\n" are white space, every other token stands for a *)
(* run of visible characters.  An optional value is a record with a tag t: *)
(* None is [t |-> "None"].  A dict is a record with exactly its keys.      *)
(***************************************************************************)
EXTENDS Integers, Sequences, FiniteSets, TLC

\* ------------------------------------------------------------------ bounds
MaxUnits == 2

\* ------------------------------------------------------------ python values
None == [t |-> "None"]
Str(s) == [t |-> "str", v |-> s]
IsNone(x) == x.t = "None"

WS == {" ", "\n"}

RECURSIVE lstrip(_)
lstrip(s) == IF s # <<>> /\ Head(s) \in WS THEN lstrip(Tail(s)) ELSE s

RECURSIVE rstrip(_)
rstrip(s) ==
    IF s # <<>> /\ s[Len(s)] \in WS THEN rstrip(SubSeq(s, 1, Len(s) - 1)) ELSE s

strip(s) == rstrip(lstrip(s))

RECURSIVE join(_, _)
join(sep, parts) ==
    IF parts = <<>> THEN <<>>
    ELSE IF Len(parts) = 1 THEN parts[1]
    ELSE parts[1] \o <<sep>> \o join(sep, Tail(parts))

\* int(a / b) for a >= 0, b > 0 (true division then truncation)
IntDiv(a, b) == a \div b

\* ----------------------------------------------------------- fixed strings
GEN_FAILED == <<"Speaker notes could not be generated for this slide.">>
TEXT_EMPTY ==
    <<"This slide appears to contain visual content without text. Please review the slide and add appropriate speaker notes.">>
STREAM_CONTENT_FAILED ==
    <<"This slide contains content but speaker notes could not be generated.">>
STREAM_APPEARS_EMPTY ==
    <<"This slide appears to be empty or contains only visual elements without text.">>
BLOCK_CONTENT_FAILED ==
    <<"This slide contains content but speaker notes could not be generated. Please review and add custom notes.">>
BLOCK_APPEARS_EMPTY ==
    <<"This slide appears to be empty or contains only visual elements without text. Please review and add custom speaker notes as needed.">>

\* ------------------------------------------------------- program constants
SLIDE_WIDTH == 9144000
SLIDE_HEIGHT == 5143500
EMU_PER_INCH == 914400
CANVAS_DPI == 150
PDF_REFERENCE_DPI == 72
SERVER_DPI == 200
MAX_PREVIEW_WIDTH == 800

\* dict.get(key, default)
Get(d, k, default) == IF k \in DOMAIN d THEN d[k] ELSE default

style_configs ==
    [brief |-> [duration |-> "20-30 seconds",
                detail |-> "concise and to the point",
                sentences |-> "2-4 sentences"],
     standard |-> [duration |-> "45-60 seconds",
                   detail |-> "clear and comprehensive",
                   sentences |-> "4-6 sentences"],
     detailed |-> [duration |-> "90-120 seconds",
                   detail |-> "thorough and detailed with context and examples",
                   sentences |-> "8-12 sentences"]]

tone_configs ==
    [professional |-> "professional and business-appropriate",
     casual |-> "friendly and conversational",
     academic |-> "scholarly and research-oriented",
     persuasive |-> "compelling and convincing",
     enthusiastic |-> "energetic and passionate",
     storytelling |-> "narrative-driven and engaging with stories",
     technical |-> "precise and technically detailed",
     inspirational |-> "motivational and uplifting",
     educational |-> "clear and instructive for learning"]

\* -------------------------------------------------- the generation backend
\* What the outside world does during one call of an entry point:
\*   prep    image.save(...) into the byte buffer succeeds
\*   client  genai.Client(...) is constructed
\*   resp    generate_content: [t |-> "raise"], a response whose .text is
\*           None, or a response whose .text is Str(v)
BackendRaise == [t |-> "raise"]
ResponseTexts == {<<" ", "narration", "\n">>, <<" ">>}
Responses == {BackendRaise, None} \cup {Str(v) : v \in ResponseTexts}
GenEnvs == [prep : BOOLEAN, client : BOOLEAN, resp : Responses]

\* Request with brief as the style of an unknown value
Request_brief(entry, input, note_style, note_tone) ==
    LET style_config == Get(style_configs, note_style, style_configs["brief"])
        tone_description == Get(tone_configs, note_tone, tone_configs["professional"])
    IN  [entry |-> entry, input |-> input,
         duration |-> style_config.duration,
         detail |-> style_config.detail,
         sentences |-> style_config.sentences,
         tone |-> tone_description]

Request(entry, input, note_style, note_tone) ==
    LET style_config == Get(style_configs, note_style, style_configs["standard"])
        tone_description == Get(tone_configs, note_tone, tone_configs["professional"])
    IN  [entry |-> entry, input |-> input,
         duration |-> style_config.duration,
         detail |-> style_config.detail,
         sentences |-> style_config.sentences,
         tone |-> tone_description]

\* TryGenerate calling the backend a second time after a failure
TryGenerate_retry(request, g) ==
    IF g.resp.t \in {"raise", "None"}
    THEN [raised |-> FALSE, exc |-> "", value |-> GEN_FAILED, calls |-> <<request, request>>]
    ELSE [raised |-> FALSE, exc |-> "", value |-> strip(g.resp.v), calls |-> <<request>>]

\* Lines 129-147 and 471-485: the guarded backend call.
TryGenerate(request, g) ==
    IF g.resp.t = "raise"
    THEN [raised |-> FALSE, exc |-> "", value |-> GEN_FAILED, calls |-> <<request>>]
    ELSE IF g.resp.t = "None"   \* None.strip() raises inside the try
    THEN [raised |-> FALSE, exc |-> "", value |-> GEN_FAILED, calls |-> <<request>>]
    ELSE [raised |-> FALSE, exc |-> "", value |-> strip(g.resp.v), calls |-> <<request>>]

Raised(msg) == [raised |-> TRUE, exc |-> msg, value |-> <<>>, calls |-> <<>>]

generate_speaker_notes(image, note_style, note_tone, g) ==
    IF ~g.prep THEN Raised("cannot write image as PNG")
    ELSE IF ~g.client THEN Raised("cannot create backend client")
    ELSE TryGenerate(Request("image", image, note_style, note_tone), g)

\* generate_notes_from_text without the test of lines 410-411
generate_notes_from_text_nocheck(slide_text, note_style, note_tone, g) ==
    IF ~g.client THEN Raised("cannot create backend client")
    ELSE TryGenerate(Request("text", Str(slide_text), note_style, note_tone), g)

generate_notes_from_text(slide_text, note_style, note_tone, g) ==
    IF slide_text = <<>> \/ strip(slide_text) = <<>>
    THEN [raised |-> FALSE, exc |-> "", value |-> TEXT_EMPTY, calls |-> <<>>]
    ELSE IF ~g.client THEN Raised("cannot create backend client")
    ELSE TryGenerate(Request("text", Str(slide_text), note_style, note_tone), g)

\* ------------------------------------------------------------ source decks
\* A shape: type is "picture" (shape_type 13), "text" (has a text attribute)
\* or "table" (a graphic frame with has_table).  bad: handling the shape in
\* render_slide_as_image raises (undecodable blob, missing geometry).
\* unreadable: reading the shape's text raises.
Shape(type, text, cells, bad, unreadable) ==
    [type |-> type, text |-> text, cells |-> cells, bad |-> bad,
     unreadable |-> unreadable]

RECURSIVE NonEmptyStripped(_)
NonEmptyStripped(texts) ==
    IF texts = <<>> THEN <<>>
    ELSE (IF strip(Head(texts)) # <<>> THEN <<strip(Head(texts))>> ELSE <<>>)
         \o NonEmptyStripped(Tail(texts))

RECURSIVE Flatten(_)
Flatten(rows) == IF rows = <<>> THEN <<>> ELSE Head(rows) \o Flatten(Tail(rows))

\* Lines 682-699: the texts of the shapes, in order; an exception ends the
\* walk and keeps what was collected.
RECURSIVE ExtractTexts(_, _)
ExtractTexts(shapes, acc) ==
    IF shapes = <<>> THEN acc
    ELSE LET s == Head(shapes) IN
         IF s.type \in {"text", "table"} /\ s.unreadable THEN acc
         ELSE ExtractTexts(Tail(shapes),
                  acc \o (IF s.type = "text" THEN NonEmptyStripped(<<s.text>>) ELSE <<>>)
                      \o (IF s.type = "table" THEN NonEmptyStripped(Flatten(s.cells))
                          ELSE <<>>))

combined_text(slide) == join("\n", ExtractTexts(slide.shapes, <<>>))

\* ShapeDraws of a renderer that draws pictures and tables only
ShapeDraws_notext(s) ==
    IF s.type = "picture" THEN ~s.bad
    ELSE IF s.type = "table" THEN ~s.bad
    ELSE FALSE

\* Lines 191-285: the shapes that contribute content, in draw order.
ShapeDraws(s) ==
    IF s.type = "picture" THEN ~s.bad
    ELSE IF s.type = "text" THEN ~s.unreadable /\ strip(s.text) # <<>> /\ ~s.bad
    ELSE IF s.type = "table" THEN ~s.bad
    ELSE FALSE

\* Lines 268, 272 and 273: the slices of the table branch.
TABLE_MAX_ROWS == 5
TABLE_MAX_CELLS == 5
CELL_TEXT_LIMIT == 30

\* A slice that keeps everything
Take_all(s, n) == s

\* Python's s[:n]
Take(s, n) == SubSeq(s, 1, IF Len(s) < n THEN Len(s) ELSE n)

\* Lines 272-277: the cells of one row that get text drawn, row_idx and the
\* column 0-based as in the enumerate calls.
RECURSIVE RowCells(_, _, _)
RowCells(cells, row_idx, c) ==
    IF c > Len(cells) THEN <<>>
    ELSE LET cell_text == Take(strip(cells[c]), CELL_TEXT_LIMIT) IN
         (IF cell_text # <<>>
          THEN <<[row |-> row_idx, col |-> c - 1, text |-> cell_text]>>
          ELSE <<>>) \o RowCells(cells, row_idx, c + 1)

\* Lines 268-279: the rows of the table, in draw order.
RECURSIVE TableCells(_, _)
TableCells(rows, r) ==
    IF r > Len(rows) THEN <<>>
    ELSE RowCells(Take(rows[r], TABLE_MAX_CELLS), r - 1, 1) \o TableCells(rows, r + 1)

\* Lines 253-281: the cell texts a shape puts on the canvas.
DrawnCells(s) ==
    IF s.type = "table" /\ ~s.bad THEN TableCells(Take(s.cells, TABLE_MAX_ROWS), 1)
    ELSE <<>>

RECURSIVE DrawnShapes(_, _)
DrawnShapes(shapes, i) ==
    IF i > Len(shapes) THEN <<>>
    ELSE (IF ShapeDraws(shapes[i])
          THEN <<[shape |-> i, type |-> shapes[i].type, cells |-> DrawnCells(shapes[i])]>>
          ELSE <<>>) \o DrawnShapes(shapes, i + 1)

\* A renderer without the per-shape handler: the first failing shape ends in
\* the outer handler.
render_slide_as_image_strict(prs, slide_idx) ==
    IF slide_idx + 1 > Len(prs.slides) THEN None
    ELSE LET shapes == prs.slides[slide_idx + 1].shapes
             drawn == DrawnShapes(shapes, 1)
         IN  IF drawn # <<>> /\ \A i \in 1..Len(shapes) : ~shapes[i].bad /\ ~shapes[i].unreadable
             THEN [t |-> "image", src |-> "slide", idx |-> slide_idx,
                   w |-> IntDiv(prs.slide_width * CANVAS_DPI, EMU_PER_INCH),
                   h |-> IntDiv(prs.slide_height * CANVAS_DPI, EMU_PER_INCH),
                   drawn |-> drawn]
             ELSE None

\* Lines 150-295.  slide_idx is 0-based.
render_slide_as_image(prs, slide_idx) ==
    IF slide_idx + 1 > Len(prs.slides) THEN None
    ELSE LET drawn == DrawnShapes(prs.slides[slide_idx + 1].shapes, 1)
             has_content == drawn # <<>>
         IN  IF has_content
             THEN [t |-> "image", src |-> "slide", idx |-> slide_idx,
                   w |-> IntDiv(prs.slide_width * CANVAS_DPI, EMU_PER_INCH),
                   h |-> IntDiv(prs.slide_height * CANVAS_DPI, EMU_PER_INCH),
                   drawn |-> drawn]
             ELSE None

\* Lines 36-48: the pixmap of one page at zoom dpi/72.
PageImage(page, page_num, dpi) ==
    [t |-> "image", src |-> "page", idx |-> page_num,
     w |-> IntDiv(page.w * dpi, PDF_REFERENCE_DPI),
     h |-> IntDiv(page.h * dpi, PDF_REFERENCE_DPI),
     drawn |-> <<>>]

\* A preview of the image at its full size
Preview_full(image, ok) ==
    IF IsNone(image) \/ ~ok THEN None
    ELSE [t |-> "b64", of |-> image, w |-> image.w, h |-> image.h]

\* Lines 704-722 and 809-826: the base64 preview, None when encoding fails.
Preview(image, ok) ==
    IF IsNone(image) \/ ~ok THEN None
    ELSE IF image.w > MAX_PREVIEW_WIDTH
    THEN [t |-> "b64", of |-> image, w |-> MAX_PREVIEW_WIDTH,
          h |-> IntDiv(image.h * MAX_PREVIEW_WIDTH, image.w)]
    ELSE [t |-> "b64", of |-> image, w |-> image.w, h |-> image.h]

RECURSIVE GCD(_, _)
GCD(a, b) == IF b = 0 THEN a ELSE GCD(b, a % b)

\* MulDiv dividing first: int(a // c * b)
MulDiv_lossy(a, b, c) == (a \div c) * b

\* int(a * b / c) for a, b >= 0 and c > 0, without forming a * b
MulDiv(a, b, c) == (a \div c) * b + ((a % c) * b) \div c

\* Placement at the native size of the image (9525 units a pixel), top left
Placement_native(slide_width, slide_height, img_width, img_height) ==
    [left |-> 0, top |-> 0, width |-> img_width * 9525, height |-> img_height * 9525]

\* Lines 551-564 and 840-853: aspect-fit placement.  img_aspect >
\* slide_aspect is w/h > W/H, compared on the reduced fraction W/H.
Placement(slide_width, slide_height, img_width, img_height) ==
    LET g == GCD(slide_width, slide_height) IN
    IF img_width * (slide_height \div g) > (slide_width \div g) * img_height
    THEN LET pic_height == MulDiv(slide_width, img_height, img_width)
         IN  [left |-> 0, top |-> IntDiv(slide_height - pic_height, 2),
              width |-> slide_width, height |-> pic_height]
    ELSE LET pic_width == MulDiv(slide_height, img_width, img_height)
         IN  [left |-> IntDiv(slide_width - pic_width, 2), top |-> 0,
              width |-> pic_width, height |-> slide_height]

\* Line 734 (and 353): the visual is used when there is one.
UseImage(slide_image) == ~IsNone(slide_image)

\* UseText without the test of the text: fromText is tried on an empty text
UseText_always(notes, text) == IsNone(notes)

\* Line 741 (and 362): the text is used when the visual gave no notes.
UseText(notes, text) == IsNone(notes) /\ text # <<>>

\* The narration of one existing slide, as lines 732-748 and lines 352-373
\* both resolve it.  gI and gT are what the outside world does during the
\* fromImage and the fromText call, if they are made.
ResolveNotes(slide_image, text, note_style, note_tone, gI, gT, content_failed, appears_empty) ==
    LET hasImage == UseImage(slide_image)
        r1 == generate_speaker_notes(slide_image, note_style, note_tone, gI)
        notes1 == IF hasImage /\ ~r1.raised THEN Str(r1.value) ELSE None
        useText == UseText(notes1, text)
        r2 == generate_notes_from_text(text, note_style, note_tone, gT)
        notes2 == IF useText
                  THEN (IF r2.raised THEN Str(content_failed) ELSE Str(r2.value))
                  ELSE notes1
    IN  [notes |-> IF IsNone(notes2) THEN appears_empty ELSE notes2.v,
         calls |-> (IF hasImage THEN r1.calls ELSE <<>>)
                   \o (IF useText THEN r2.calls ELSE <<>>),
         hasImage |-> ~IsNone(slide_image),
         hasText |-> text # <<>>,
         fromImage |-> hasImage,
         imageRaised |-> hasImage /\ r1.raised,
         fromText |-> useText,
         textRaised |-> useText /\ r2.raised,
         by |-> IF ~IsNone(notes1) THEN "image"
                ELSE IF useText /\ ~r2.raised THEN "text"
                ELSE "placeholder"]

\* process_pptx_with_progress, lines 732-748
PptxResolve(slide_image, text, note_style, note_tone, gI, gT) ==
    ResolveNotes(slide_image, text, note_style, note_tone, gI, gT,
                 STREAM_CONTENT_FAILED, STREAM_APPEARS_EMPTY)

\* add_notes_to_pptx, lines 352-373: no style and no tone are passed on
BlockingPptxResolve(slide_image, text, gI, gT) ==
    ResolveNotes(slide_image, text, "standard", "professional", gI, gT,
                 BLOCK_CONTENT_FAILED, BLOCK_APPEARS_EMPTY)

\* pdf_to_pptx_with_notes, line 581
BlockingPdfGenerate(page_image, g) ==
    generate_speaker_notes(page_image, "standard", "professional", g)

\* ------------------------------------------------------------------- state
Pids == {"p1", "p2"}
Stems == {"talk", "deck"}
OutNames == Stems \cup Pids
Reqs == {1, 2}
NoReq == 0
MaxFaults == 1

NoFile == [t |-> "nofile"]
Corrupt == [t |-> "corrupt"]

VARIABLES
    uploadDir,          \* UPLOAD_DIR: processing id -> file
    outputDir,          \* OUTPUT_DIR: output name -> file
    filename_mapping,   \* the dict of server.py line 30
    issued,             \* the uuids upload_file has drawn
    job,                \* per /process request: the locals of the generators
    events,             \* per /process request: the events sent so far
    calls,              \* per /process request: the backend requests made
    units,              \* per /process request: how each unit's notes were resolved
    cur,                \* the request running between two await points
    call                \* a single call of a function of add_speaker_notes.py

vars == <<uploadDir, outputDir, filename_mapping, issued, job, events, calls, units, cur, call>>

\* no function is called on its own
NoCall == [fn |-> "none"]

NoDeck == [slide_width |-> 0, slide_height |-> 0, slides |-> <<>>]

IdleJob ==
    [pc |-> "idle", pid |-> "", style |-> "", tone |-> "", ext |-> "", out |-> "",
     num |-> 0, idx |-> 0, prs |-> NoDeck, image |-> None, text |-> <<>>,
     preview |-> None, notes |-> <<>>, exc |-> "", failures |-> <<>>, handles |-> 0,
     saveCalled |-> FALSE]

\* the server after start up: empty directories, no request
InitServer ==
    /\ uploadDir = [p \in Pids |-> NoFile]
    /\ outputDir = [n \in OutNames |-> NoFile]
    /\ filename_mapping = [p \in {} |-> ""]
    /\ issued = {}
    /\ job = [r \in Reqs |-> IdleJob]
    /\ events = [r \in Reqs |-> <<>>]
    /\ calls = [r \in Reqs |-> <<>>]
    /\ units = [r \in Reqs |-> <<>>]
    /\ cur = NoReq

Init == InitServer /\ call = NoCall

\* dict[k] = v and del dict[k]
DictSet(d, k, v) == [x \in DOMAIN d \cup {k} |-> IF x = k THEN v ELSE d[x]]
DictDel(d, k) == [x \in DOMAIN d \ {k} |-> d[x]]

Exists(f) == f.t = "file"

Msg(fmt, args) == [fmt |-> fmt, args |-> args]

\* ----------------------------------------------------------- input domains
Text(s) == s
TITLE == <<" ", "title", "\n">>
NoCells == <<>>

PictureOk == Shape("picture", <<>>, NoCells, FALSE, FALSE)
PictureBad == Shape("picture", <<>>, NoCells, TRUE, FALSE)
TextOk == Shape("text", TITLE, NoCells, FALSE, FALSE)
TextNoGeometry == Shape("text", TITLE, NoCells, TRUE, FALSE)

Slide(shapes) == [shapes |-> shapes, notes |-> <<>>]
SlideSet ==
    {Slide(<<>>), Slide(<<PictureOk>>), Slide(<<PictureBad>>), Slide(<<TextOk>>),
     Slide(<<TextNoGeometry>>)}

PageSet ==
    {[w |-> 288, h |-> 162, bad |-> FALSE], [w |-> 612, h |-> 792, bad |-> FALSE],
     [w |-> 612, h |-> 792, bad |-> TRUE]}

SeqsUpTo(S, n) == UNION {[1..k -> S] : k \in 0..n}

PdfDocs == {[t |-> "pdf", pages |-> ps] : ps \in SeqsUpTo(PageSet, MaxUnits)}
PptxDocs ==
    {[t |-> "pptx", slide_width |-> 9144000, slide_height |-> 6858000, slides |-> ss] :
        ss \in SeqsUpTo(SlideSet, MaxUnits)}

Uploads ==
    ({".pdf"} \X (PdfDocs \cup {Corrupt})) \cup ({".pptx"} \X (PptxDocs \cup {Corrupt}))
        \cup {<<".txt", Corrupt>>}

\* ---------------------------------------------------------------- /upload
\* server.py lines 40-79.  p is the uuid drawn at line 55.  key: the variable
\* GOOGLE_API_KEY is set; copyOk: the upload is written completely.
Upload(p, stem, files) ==
    /\ cur = NoReq
    /\ p \notin issued
    /\ \E u \in files, key \in BOOLEAN, copyOk \in BOOLEAN :
          IF u[1] \notin {".pdf", ".pptx"} \/ ~key
          THEN UNCHANGED vars
          ELSE /\ issued' = issued \cup {p}
               /\ IF copyOk
                  THEN /\ uploadDir' = [uploadDir EXCEPT ![p] =
                                           [t |-> "file", ext |-> u[1], doc |-> u[2]]]
                       /\ filename_mapping' = DictSet(filename_mapping, p, stem)
                  ELSE /\ uploadDir' = [uploadDir EXCEPT ![p] =
                                           [t |-> "file", ext |-> u[1], doc |-> Corrupt]]
                       /\ UNCHANGED filename_mapping
               /\ UNCHANGED <<outputDir, job, events, calls, units, cur, call>>

upload_file(p, stem) == Upload(p, stem, Uploads)

\* --------------------------------------------------------------- /process
J(r) == job[r]
IsPdf(r) == J(r).ext = ".pdf"
Running(r, pc) == J(r).pc = pc /\ cur \in {NoReq, r}

\* a step that yields nothing: the request keeps the event loop
Step(r, j) ==
    /\ job' = [job EXCEPT ![r] = j]
    /\ cur' = r
    /\ UNCHANGED call

\* a step that ends in a yield: the event goes out, the event loop is free
Yield(r, j, e) ==
    /\ job' = [job EXCEPT ![r] = j]
    /\ events' = [events EXCEPT ![r] = Append(@, e)]
    /\ cur' = NoReq
    /\ UNCHANGED call

\* an I/O call of the request fails; at most MaxFaults do in one request
CanFail(r) == Len(J(r).failures) < MaxFaults
Faulted(j, what) == [j EXCEPT !.failures = Append(@, what)]
\* the input file could not be removed at line 125 and may still resist at 137
InputStuck(r) == J(r).pc = "except" /\ J(r).exc = "cannot remove the input file"

\* an exception raised inside the try of server.py line 105
Except(j, msg) == [j EXCEPT !.pc = "except", !.exc = msg]

\* the head of the for loops, lines 679 and 802
NextPc(j) ==
    IF j.idx < j.num THEN (IF j.ext = ".pdf" THEN "render_page" ELSE "prepare")
    ELSE "save"

\* server.py line 83-86: the request arrives and its generator is created
process_file(r, p, style, tone) ==
    /\ Running(r, "idle")
    /\ Step(r, [IdleJob EXCEPT !.pc = "lookup", !.pid = p, !.style = style,
                               !.tone = tone])
    /\ UNCHANGED <<uploadDir, outputDir, filename_mapping, issued, events, calls, units>>

\* server.py lines 88-102
Lookup(r) ==
    /\ Running(r, "lookup")
    /\ \/ /\ CanFail(r)
          /\ Step(r, [Faulted(J(r), "glob") EXCEPT !.pc = "outer_except",
                                           !.exc = "cannot list the upload directory"])
          /\ UNCHANGED events
       \/ /\ ~Exists(uploadDir[J(r).pid])
          /\ Yield(r, [J(r) EXCEPT !.pc = "done"], [error |-> "File not found"])
       \/ /\ Exists(uploadDir[J(r).pid])
          /\ Step(r, [J(r) EXCEPT !.pc = "open",
                                  !.ext = uploadDir[J(r).pid].ext,
                                  !.out = Get(filename_mapping, J(r).pid, J(r).pid)])
          /\ UNCHANGED events
    /\ UNCHANGED <<uploadDir, outputDir, filename_mapping, issued, calls, units>>

Started(num, what) ==
    [status |-> "started", total_slides |-> num,
     message |-> Msg(what, <<num>>)]

\* OpenSource taking a source it cannot read for one without units
OpenSource_lenient(r) ==
    /\ Running(r, "open")
    /\ LET doc == uploadDir[J(r).pid].doc
           n == IF doc.t = "pdf" THEN Len(doc.pages)
                ELSE IF doc.t = "pptx" THEN Len(doc.slides) ELSE 0
           j == [J(r) EXCEPT !.num = n,
                             !.prs = IF doc.t = "pptx"
                                     THEN [slide_width |-> doc.slide_width,
                                           slide_height |-> doc.slide_height,
                                           slides |-> doc.slides]
                                     ELSE NoDeck]
       IN  Yield(r, [j EXCEPT !.pc = IF IsPdf(r) THEN "new_prs" ELSE NextPc(j)],
                 Started(n, "Starting..."))
    /\ UNCHANGED <<uploadDir, outputDir, filename_mapping, issued, calls, units>>

\* add_speaker_notes.py lines 788-796 (pdf) and 670-677 (pptx)
OpenSource(r) ==
    /\ Running(r, "open")
    /\ LET doc == uploadDir[J(r).pid].doc IN
       IF IsPdf(r)
       THEN IF doc.t = "pdf"
            THEN Yield(r, [J(r) EXCEPT !.pc = "new_prs", !.num = Len(doc.pages)],
                       Started(Len(doc.pages), "Starting to convert {} pages..."))
            ELSE Step(r, Except(J(r), "cannot open the document")) /\ UNCHANGED events
       ELSE IF doc.t = "pptx"
            THEN LET j == [J(r) EXCEPT !.num = Len(doc.slides),
                                       !.prs = [slide_width |-> doc.slide_width,
                                                slide_height |-> doc.slide_height,
                                                slides |-> doc.slides]]
                 IN  Yield(r, [j EXCEPT !.pc = NextPc(j)],
                           Started(Len(doc.slides), "Starting to process {} slides..."))
            ELSE Step(r, Except(J(r), "cannot open the presentation")) /\ UNCHANGED events
    /\ UNCHANGED <<uploadDir, outputDir, filename_mapping, issued, calls, units>>

\* lines 798-800
NewPresentation(r) ==
    /\ Running(r, "new_prs")
    /\ LET j == [J(r) EXCEPT !.prs = [slide_width |-> SLIDE_WIDTH,
                                      slide_height |-> SLIDE_HEIGHT,
                                      slides |-> <<>>]]
       IN  Step(r, [j EXCEPT !.pc = NextPc(j)])
    /\ UNCHANGED <<uploadDir, outputDir, filename_mapping, issued, events, calls, units>>

\* lines 805-826: render_pdf_page_as_image (lines 36-48) and the preview
RenderPage(r) ==
    /\ Running(r, "render_page")
    /\ LET f == uploadDir[J(r).pid] IN
       IF ~Exists(f) \/ f.doc.t # "pdf"
       THEN Step(r, Except(J(r), "cannot open the document"))
       ELSE LET page == f.doc.pages[J(r).idx + 1] IN
            IF page.bad
            THEN \* doc.close() of line 47 is not reached: the document stays
                 \* open unless the interpreter happens to finalize it
                 \E h \in {J(r).handles, J(r).handles + 1} :
                     Step(r, Except([J(r) EXCEPT !.handles = h], "cannot render the page"))
            ELSE LET img == PageImage(page, J(r).idx, SERVER_DPI) IN
                 \/ Step(r, [J(r) EXCEPT !.pc = "emit1", !.image = img,
                                         !.preview = Preview(img, TRUE)])
                 \/ /\ CanFail(r)
                    /\ Step(r, [Faulted(J(r), "preview") EXCEPT !.pc = "emit1", !.image = img,
                                                     !.preview = Preview(img, FALSE)])
    /\ UNCHANGED <<uploadDir, outputDir, filename_mapping, issued, events, calls, units>>

\* lines 682-722: the text, the visual and the preview of one slide
PptxPrepare(r) ==
    /\ Running(r, "prepare")
    /\ LET img == render_slide_as_image(J(r).prs, J(r).idx)
           j == [J(r) EXCEPT !.pc = "emit1", !.image = img,
                             !.text = combined_text(J(r).prs.slides[J(r).idx + 1])]
       IN  \/ Step(r, [j EXCEPT !.preview = Preview(img, TRUE)])
           \/ /\ CanFail(r)
              /\ ~IsNone(img)
              /\ Step(r, [Faulted(j, "preview") EXCEPT !.preview = Preview(img, FALSE)])
    /\ UNCHANGED <<uploadDir, outputDir, filename_mapping, issued, events, calls, units>>

\* Processing with the 0-based index of the unit
Processing_zero_based(j, fmt) ==
    [status |-> "processing", current_slide |-> j.idx, total_slides |-> j.num,
     message |-> Msg(fmt, <<j.idx, j.num>>), slide_image |-> j.preview]

Processing(j, fmt) ==
    [status |-> "processing", current_slide |-> j.idx + 1, total_slides |-> j.num,
     message |-> Msg(fmt, <<j.idx + 1, j.num>>), slide_image |-> j.preview]

\* lines 724-730 and 828-834
EmitProcessing1(r) ==
    /\ Running(r, "emit1")
    /\ Yield(r, [J(r) EXCEPT !.pc = IF IsPdf(r) THEN "add_slide" ELSE "resolve"],
             Processing(J(r), IF IsPdf(r) THEN "Processing page {} of {}..."
                                          ELSE "Processing slide {} of {}..."))
    /\ UNCHANGED <<uploadDir, outputDir, filename_mapping, issued, calls, units>>

\* what the backend and the client library do during the calls of a request
JobGenEnvs ==
    {g \in GenEnvs : g.prep /\ g.client}
        \cup {[prep |-> FALSE, client |-> TRUE, resp |-> None],
              [prep |-> TRUE, client |-> FALSE, resp |-> None]}

\* What one unit's resolution did, and the notes the blocking form gives the
\* same unit when the outside world does the same.
UnitRecord(idx, kind, res, blocking) ==
    [unit |-> idx, kind |-> kind, hasImage |-> res.hasImage, hasText |-> res.hasText,
     fromImage |-> res.fromImage, imageRaised |-> res.imageRaised,
     fromText |-> res.fromText, textRaised |-> res.textRaised,
     ncalls |-> Len(res.calls), by |-> res.by, notes |-> res.notes,
     blocking |-> blocking]

\* lines 732-748
PptxResolveNotes(r) ==
    /\ Running(r, "resolve")
    /\ \E gI \in JobGenEnvs, gT \in JobGenEnvs :
          LET res == PptxResolve(J(r).image, J(r).text, J(r).style, J(r).tone, gI, gT)
              blk == BlockingPptxResolve(J(r).image, J(r).text, gI, gT)
          IN  /\ Step(r, [J(r) EXCEPT !.pc = "attach", !.notes = res.notes])
              /\ calls' = [calls EXCEPT ![r] = @ \o res.calls]
              /\ units' = [units EXCEPT ![r] = Append(@, UnitRecord(J(r).idx, "pptx", res, blk.notes))]
    /\ UNCHANGED <<uploadDir, outputDir, filename_mapping, issued, events>>

\* SetNotes writing to the first slide whatever the index
SetNotes_first(prs, i, notes) == [prs EXCEPT !.slides[1].notes = notes]

SetNotes(prs, i, notes) == [prs EXCEPT !.slides[i].notes = notes]

\* PptxAttach putting the notes on a slide of their own
PptxAttach_append(r) ==
    /\ Running(r, "attach")
    /\ ~IsPdf(r)
    /\ Step(r, [J(r) EXCEPT !.pc = "emit2",
                            !.prs.slides = Append(@, [shapes |-> <<>>, notes |-> J(r).notes])])
    /\ UNCHANGED <<uploadDir, outputDir, filename_mapping, issued, events, calls, units>>

\* lines 750-756: a failure to attach the notes is swallowed
PptxAttach(r) ==
    /\ Running(r, "attach")
    /\ ~IsPdf(r)
    /\ \/ Step(r, [J(r) EXCEPT !.pc = "emit2",
                               !.prs = SetNotes(@, J(r).idx + 1, J(r).notes)])
       \/ /\ CanFail(r)
          /\ Step(r, [Faulted(J(r), "pptx_notes") EXCEPT !.pc = "emit2"])
    /\ UNCHANGED <<uploadDir, outputDir, filename_mapping, issued, events, calls, units>>

\* lines 836-838
AddSlide(r) ==
    /\ Running(r, "add_slide")
    /\ \/ Step(r, [J(r) EXCEPT !.pc = "add_picture",
                               !.prs.slides = Append(@, [shapes |-> <<>>, notes |-> <<>>])])
       \/ /\ CanFail(r)
          /\ Step(r, Except(Faulted(J(r), "add_slide"), "cannot add a slide"))
    /\ UNCHANGED <<uploadDir, outputDir, filename_mapping, issued, events, calls, units>>

Picture(image, box) ==
    [type |-> "picture", image |-> image, left |-> box.left, top |-> box.top,
     width |-> box.width, height |-> box.height]

\* AddPicture going on to the notes without the generation call
AddPicture_nogenerate(r) ==
    /\ Running(r, "add_picture")
    /\ LET prs == J(r).prs
           box == Placement(prs.slide_width, prs.slide_height, J(r).image.w, J(r).image.h)
       IN  Step(r, [J(r) EXCEPT !.pc = "attach",
                                !.prs.slides[Len(prs.slides)].shapes =
                                    Append(@, Picture(J(r).image, box))])
    /\ UNCHANGED <<uploadDir, outputDir, filename_mapping, issued, events, calls, units>>

\* lines 840-860
AddPicture(r) ==
    /\ Running(r, "add_picture")
    /\ LET prs == J(r).prs
           box == Placement(prs.slide_width, prs.slide_height, J(r).image.w, J(r).image.h)
       IN  \/ Step(r, [J(r) EXCEPT !.pc = "generate",
                                   !.prs.slides[Len(prs.slides)].shapes =
                                       Append(@, Picture(J(r).image, box))])
           \/ /\ CanFail(r)
              /\ Step(r, Except(Faulted(J(r), "add_picture"), "cannot add the picture"))
    /\ UNCHANGED <<uploadDir, outputDir, filename_mapping, issued, events, calls, units>>

PdfResult(res) ==
    [notes |-> res.value, calls |-> res.calls, hasImage |-> TRUE, hasText |-> FALSE,
     fromImage |-> TRUE, imageRaised |-> res.raised, fromText |-> FALSE,
     textRaised |-> FALSE, by |-> IF res.raised THEN "none" ELSE "image"]

\* lines 862-863: the call is not guarded
PdfGenerate(r) ==
    /\ Running(r, "generate")
    /\ \E g \in JobGenEnvs :
          LET res == generate_speaker_notes(J(r).image, J(r).style, J(r).tone, g) IN
          /\ IF res.raised
             THEN Step(r, Except(J(r), res.exc))
             ELSE Step(r, [J(r) EXCEPT !.pc = "attach", !.notes = res.value])
          /\ calls' = [calls EXCEPT ![r] = @ \o res.calls]
          /\ units' = [units EXCEPT ![r] =
                          Append(@, UnitRecord(J(r).idx, "pdf", PdfResult(res),
                                               BlockingPdfGenerate(J(r).image, g).value))]
    /\ UNCHANGED <<uploadDir, outputDir, filename_mapping, issued, events>>

\* PdfAttach with the failure swallowed, as lines 750-756 do for a deck
PdfAttach_swallow(r) ==
    /\ Running(r, "attach")
    /\ IsPdf(r)
    /\ \/ Step(r, [J(r) EXCEPT !.pc = "emit2",
                               !.prs = SetNotes(@, Len(J(r).prs.slides), J(r).notes)])
       \/ /\ CanFail(r)
          /\ Step(r, [Faulted(J(r), "pdf_notes") EXCEPT !.pc = "emit2"])
    /\ UNCHANGED <<uploadDir, outputDir, filename_mapping, issued, events, calls, units>>

\* lines 865-868
PdfAttach(r) ==
    /\ Running(r, "attach")
    /\ IsPdf(r)
    /\ \/ Step(r, [J(r) EXCEPT !.pc = "emit2",
                               !.prs = SetNotes(@, Len(J(r).prs.slides), J(r).notes)])
       \/ /\ CanFail(r)
          /\ Step(r, Except(Faulted(J(r), "pdf_notes"), "cannot set the notes"))
    /\ UNCHANGED <<uploadDir, outputDir, filename_mapping, issued, events, calls, units>>

\* EmitProcessing2 without its yield
EmitProcessing2_silent(r) ==
    /\ Running(r, "emit2")
    /\ LET j == [J(r) EXCEPT !.idx = @ + 1] IN Step(r, [j EXCEPT !.pc = NextPc(j)])
    /\ UNCHANGED <<uploadDir, outputDir, filename_mapping, issued, events, calls, units>>

\* lines 758-764 and 870-876, then the loop head
EmitProcessing2(r) ==
    /\ Running(r, "emit2")
    /\ LET j == [J(r) EXCEPT !.idx = @ + 1] IN
       Yield(r, [j EXCEPT !.pc = NextPc(j)],
             Processing(J(r), IF IsPdf(r) THEN "Completed page {} of {}"
                                          ELSE "Completed slide {} of {}"))
    /\ UNCHANGED <<uploadDir, outputDir, filename_mapping, issued, calls, units>>

Written(r, whole) == [t |-> "file", deck |-> J(r).prs, whole |-> whole, by |-> r]

\* lines 766-767 and 878-879: prs.save(output_pptx)
Save(r) ==
    /\ Running(r, "save")
    /\ \/ /\ Step(r, [J(r) EXCEPT !.pc = "emit_saving", !.saveCalled = TRUE])
          /\ outputDir' = [outputDir EXCEPT ![J(r).out] = Written(r, TRUE)]
       \/ /\ CanFail(r)    \* the write stops half way
          /\ Step(r, Except([Faulted(J(r), "save") EXCEPT !.saveCalled = TRUE],
                            "cannot write the presentation"))
          /\ outputDir' = [outputDir EXCEPT ![J(r).out] = Written(r, FALSE)]
       \/ /\ CanFail(r)    \* the file cannot be created
          /\ Step(r, Except([Faulted(J(r), "save") EXCEPT !.saveCalled = TRUE],
                            "cannot create the presentation"))
          /\ UNCHANGED outputDir
    /\ UNCHANGED <<uploadDir, filename_mapping, issued, events, calls, units>>

\* lines 769-772 and 881-884
EmitSaving(r) ==
    /\ Running(r, "emit_saving")
    /\ Yield(r, [J(r) EXCEPT !.pc = "cleanup"],
             [status |-> "saving", message |-> Msg("Saving presentation...", <<>>)])
    /\ UNCHANGED <<uploadDir, outputDir, filename_mapping, issued, calls, units>>

\* server.py lines 123-132: the clean up after the last progress event
Complete(r) ==
    /\ Running(r, "cleanup")
    /\ \/ /\ Yield(r, [J(r) EXCEPT !.pc = "done"],
                   [status |-> "complete", filename |-> J(r).out])
          /\ uploadDir' = [uploadDir EXCEPT ![J(r).pid] = NoFile]
          /\ filename_mapping' = DictDel(filename_mapping, J(r).pid)
       \/ /\ CanFail(r)    \* os.remove(input_path) raises
          /\ Exists(uploadDir[J(r).pid])
          /\ Step(r, Except(Faulted(J(r), "remove_input"), "cannot remove the input file"))
          /\ UNCHANGED <<uploadDir, filename_mapping, events>>
    /\ UNCHANGED <<outputDir, issued, calls, units>>

\* server.py lines 134-143: the handler of the inner try
InnerExcept(r) ==
    /\ Running(r, "except")
    /\ \/ /\ CanFail(r) \/ InputStuck(r)    \* os.remove(input_path) raises
          /\ Exists(uploadDir[J(r).pid])
          /\ Step(r, [J(r) EXCEPT !.pc = "outer_except",
                                  !.failures = Append(@, "remove_input"),
                                  !.exc = "cannot remove the input file"])
          /\ UNCHANGED <<uploadDir, outputDir, filename_mapping, events>>
       \/ /\ CanFail(r)    \* os.remove(output_path) raises
          /\ Exists(outputDir[J(r).out])
          /\ Step(r, [Faulted(J(r), "remove_output") EXCEPT !.pc = "outer_except",
                                           !.exc = "cannot remove the output file"])
          /\ uploadDir' = [uploadDir EXCEPT ![J(r).pid] = NoFile]
          /\ UNCHANGED <<outputDir, filename_mapping, events>>
       \/ /\ Yield(r, [J(r) EXCEPT !.pc = "done"], [error |-> J(r).exc])
          /\ uploadDir' = [uploadDir EXCEPT ![J(r).pid] = NoFile]
          /\ outputDir' = [outputDir EXCEPT ![J(r).out] = NoFile]
          /\ filename_mapping' = DictDel(filename_mapping, J(r).pid)
    /\ UNCHANGED <<issued, calls, units>>

\* OuterExcept absent: the exception leaves the generator
OuterExcept_reraise(r) ==
    /\ Running(r, "outer_except")
    /\ Step(r, [J(r) EXCEPT !.pc = "escaped"])
    /\ UNCHANGED <<uploadDir, outputDir, filename_mapping, issued, events, calls, units>>

\* server.py lines 145-146
OuterExcept(r) ==
    /\ Running(r, "outer_except")
    /\ Yield(r, [J(r) EXCEPT !.pc = "done"], [error |-> J(r).exc])
    /\ UNCHANGED <<uploadDir, outputDir, filename_mapping, issued, calls, units>>

\* the style and tone query parameters of a request: the defaults of line 83
\* (other values reach the entry points in the single calls below)
Options == {<<"standard", "professional">>}

JobStep(r) ==
    \/ Lookup(r) \/ OpenSource(r) \/ NewPresentation(r)
    \/ RenderPage(r) \/ PptxPrepare(r) \/ EmitProcessing1(r)
    \/ PptxResolveNotes(r) \/ PptxAttach(r)
    \/ AddSlide(r) \/ AddPicture(r) \/ PdfGenerate(r) \/ PdfAttach(r)
    \/ EmitProcessing2(r)
    \/ Save(r) \/ EmitSaving(r)
    \/ Complete(r) \/ InnerExcept(r) \/ OuterExcept(r)

\* one upload and one /process request
Next ==
    \/ upload_file("p1", "talk")
    \/ \E o \in Options : process_file(1, "p1", o[1], o[2])
    \/ JobStep(1)

Spec == Init /\ [][Next]_vars

\* ------------------------------------------------------ concurrent requests
\* Two uploads with the same original file name, talk.pptx or talk.pdf, and
\* one /process request for each: the requests interleave at their yields.
ConcUploads ==
    {<<".pptx", [t |-> "pptx", slide_width |-> 9144000, slide_height |-> 6858000,
                 slides |-> <<Slide(<<TextOk>>)>>]>>,
     <<".pdf", [t |-> "pdf", pages |-> <<[w |-> 288, h |-> 162, bad |-> FALSE]>>]>>}

NextConc ==
    \/ Upload("p1", "talk", ConcUploads)
    \/ Upload("p2", "talk", ConcUploads)
    \/ \E o \in Options : process_file(1, "p1", o[1], o[2])
    \/ \E o \in Options : process_file(2, "p2", o[1], o[2])
    \/ \E r \in Reqs : JobStep(r)

SpecConc == Init /\ [][NextConc]_vars


\* ------------------------------------------------- single function calls
\* The functions of add_speaker_notes.py called on their own: the arguments
\* of the call are drawn at the start, the call returns in one step.
MaxDim == 48

Styles == DOMAIN style_configs \cup {"epic", ""}
Tones == DOMAIN tone_configs \cup {"sarcastic"}
CallTexts == {<<>>, <<" ">>, <<"\n", " ">>, TITLE, <<"agenda">>}
SampleImage == PageImage([w |-> 960, h |-> 540, bad |-> FALSE], 0, SERVER_DPI)

\* render_slide_as_image: slides of up to MaxShapes shapes, sound and failing
\* ones in every position, and slides of one table of up to MaxRows rows of
\* MaxCols cells; a cell text is a sequence of characters.
MaxShapes == 3
MaxRows == 7
MaxCols == 8
MaxCellText == 34

TextBlank == Shape("text", <<" ">>, NoCells, FALSE, FALSE)
TextUnreadable == Shape("text", TITLE, NoCells, FALSE, TRUE)
LongCell == <<" ">> \o [i \in 1..MaxCellText |-> "x"] \o <<" ">>
CellTexts == {<<>>, <<" ">>, <<" ", "a", "b">>, LongCell}
\* bad: handling the table raises after its border is drawn, a row or cell
\* collection that does not take a slice included
Table(R, C, t, bad) == Shape("table", <<>>, [i \in 1..R |-> [k \in 1..C |-> t]], bad, FALSE)
Tables == {Table(R, C, t, bad) : R \in 0..MaxRows, C \in 0..MaxCols, t \in CellTexts, bad \in BOOLEAN}
RenderShapes ==
    {PictureOk, PictureBad, TextOk, TextNoGeometry, TextBlank, TextUnreadable,
     Table(2, 2, <<"a">>, FALSE), Table(2, 2, <<"a">>, TRUE)}
RenderDeck(shapes) ==
    [t |-> "pptx", slide_width |-> 9144000, slide_height |-> 6858000,
     slides |-> <<Slide(shapes)>>]

CallInputs ==
    {[fn |-> "generate_speaker_notes", done |-> FALSE, ret |-> None,
      args |-> [image |-> SampleImage, note_style |-> st, note_tone |-> tn, g |-> g]] :
        st \in Styles, tn \in Tones, g \in JobGenEnvs}
    \cup
    {[fn |-> "generate_notes_from_text", done |-> FALSE, ret |-> None,
      args |-> [slide_text |-> tx, note_style |-> st, note_tone |-> tn, g |-> g]] :
        tx \in CallTexts, st \in Styles, tn \in Tones, g \in JobGenEnvs}
    \cup
    {[fn |-> "Placement", done |-> FALSE, ret |-> None,
      args |-> [slide_width |-> SLIDE_WIDTH, slide_height |-> SLIDE_HEIGHT,
                img_width |-> w, img_height |-> h]] :
        w \in 1..MaxDim, h \in 1..MaxDim}

    \cup
    {[fn |-> "render_slide_as_image", done |-> FALSE, ret |-> None,
      args |-> [prs |-> RenderDeck(shapes), slide_idx |-> i]] :
        shapes \in SeqsUpTo(RenderShapes, MaxShapes) \cup {<<tb>> : tb \in Tables},
        i \in {0, 1}}

InitCall == InitServer /\ call \in CallInputs

Return(ret) ==
    /\ ~call.done
    /\ call' = [call EXCEPT !.done = TRUE, !.ret = ret]
    /\ UNCHANGED <<uploadDir, outputDir, filename_mapping, issued, job, events, calls, units, cur>>

CallGenerateSpeakerNotes ==
    /\ call.fn = "generate_speaker_notes"
    /\ Return(generate_speaker_notes(call.args.image, call.args.note_style,
                                     call.args.note_tone, call.args.g))

CallGenerateNotesFromText ==
    /\ call.fn = "generate_notes_from_text"
    /\ Return(generate_notes_from_text(call.args.slide_text, call.args.note_style,
                                       call.args.note_tone, call.args.g))

\* lines 840-853 on the slide of lines 799-800
CallPlacement ==
    /\ call.fn = "Placement"
    /\ Return(Placement(call.args.slide_width, call.args.slide_height,
                        call.args.img_width, call.args.img_height))

CallRenderSlideAsImage ==
    /\ call.fn = "render_slide_as_image"
    /\ Return(render_slide_as_image(call.args.prs, call.args.slide_idx))

NextCall ==
    \/ CallGenerateSpeakerNotes
    \/ CallGenerateNotesFromText
    \/ CallPlacement
    \/ CallRenderSlideAsImage

SpecCall == InitCall /\ [][NextCall]_vars

\* ================================================================== claims
Done(r) == J(r).pc = "done"
Kind(e) == IF "status" \in DOMAIN e THEN e.status ELSE "error"
Kinds(r) == [i \in 1..Len(events[r]) |-> Kind(events[r][i])]
Last(q) == q[Len(q)]
Front(q) == SubSeq(q, 1, Len(q) - 1)
Range(q) == {q[i] : i \in DOMAIN q}
IsPrefix(a, b) == Len(a) <= Len(b) /\ a = SubSeq(b, 1, Len(a))
Completed(r) == Done(r) /\ Kind(Last(events[r])) = "complete"
Failed(r) == Done(r) /\ Kind(Last(events[r])) = "error"
Canonical(n) == <<"started">> \o [i \in 1..(2 * n) |-> "processing"] \o <<"saving">>

\* C1 as stated: the events of every finished job are started, k pairs of
\* processing, saving and one terminal event.
C1_GrammarAsStated ==
    \A r \in Reqs :
        Done(r) =>
            \E k \in 0..Len(events[r]) :
                \E t \in {"complete", "error"} :
                    Kinds(r) = Canonical(k) \o <<t>>

\* C1: the events of a job are always a prefix of started, N pairs of
\* processing, saving; a finished job has exactly one more event, its terminal
\* event, which is complete only after the whole prefix, with N the number of
\* source units.
C1_Grammar ==
    \A r \in Reqs :
        LET ks == Kinds(r)
            canonical == Canonical(J(r).num)
        IN  IF Done(r)
            THEN /\ events[r] # <<>>
                 /\ IsPrefix(Front(ks), canonical)
                 /\ Last(ks) \in {"complete", "error"}
                 /\ Last(ks) = "complete" =>
                        /\ Front(ks) = canonical
                        /\ Len(J(r).prs.slides) = J(r).num
            ELSE IsPrefix(ks, canonical)

C1_Witness ==
    \E r \in Reqs : Completed(r) /\ J(r).num >= 2 /\ Len(events[r]) = 2 * J(r).num + 3

Terminals(r) == {i \in DOMAIN events[r] : Kind(events[r][i]) \in {"complete", "error"}}

\* C2: whatever fails, an exception is in the hands of a handler of the
\* generator or has become the error event; a finished job has exactly one
\* terminal event, its last, an unfinished one has none, and no exception
\* leaves the generator.
C2_OneTerminalEvent ==
    \A r \in Reqs :
        /\ J(r).pc # "escaped"
        /\ LET terminals == Terminals(r) IN
           IF Done(r) THEN terminals = {Len(events[r])} ELSE terminals = {}
        /\ J(r).exc # "" =>
              /\ J(r).pc \in {"except", "outer_except", "done"}
              /\ Done(r) => Last(events[r]) = [error |-> J(r).exc]

C2_Witness ==
    \E r \in Reqs :
        /\ Failed(r)
        /\ "saving" \in Range(Kinds(r))
        /\ "remove_input" \in Range(J(r).failures)

\* C3 as stated: when saving is the last event received, prs.save has not
\* been called yet.
C3_SavingBeforeSave ==
    \A r \in Reqs :
        (events[r] # <<>> /\ Kind(Last(events[r])) = "saving") => ~J(r).saveCalled

\* C4 as stated: every slide of the deck a completed job wrote has non-empty
\* notes.
C4_NotesNeverEmpty ==
    \A r \in Reqs :
        Completed(r) =>
            /\ Exists(outputDir[J(r).out])
            /\ \A i \in DOMAIN outputDir[J(r).out].deck.slides :
                   outputDir[J(r).out].deck.slides[i].notes # <<>>

\* C5 as stated: no call of an entry point raises, and no job ends with the
\* error of a generation call.
GenerationErrors == {"cannot write image as PNG", "cannot create backend client"}
C5_BackendFailureAbsorbed ==
    \A r \in Reqs :
        /\ \A i \in DOMAIN units[r] : ~units[r][i].imageRaised /\ ~units[r][i].textRaised
        /\ J(r).exc \notin GenerationErrors

\* C6 as stated: fromImage iff a visual exists; fromText iff fromImage raised
\* or no visual exists; neither visual nor text: the placeholder, no backend
\* call; a paged document uses fromImage only.
C6_SourceAsStated ==
    \A r \in Reqs : \A i \in DOMAIN units[r] :
        LET u == units[r][i] IN
        IF u.kind = "pptx"
        THEN /\ u.fromImage <=> u.hasImage
             /\ u.fromText <=> (u.imageRaised \/ ~u.hasImage)
             /\ (~u.hasImage /\ ~u.hasText) =>
                    (u.notes = STREAM_APPEARS_EMPTY /\ u.ncalls = 0)
        ELSE u.fromImage /\ ~u.fromText

\* C6: as C6_SourceAsStated, but fromText is called iff (fromImage raised or
\* no visual exists) and the extracted text is not empty.
C6_Source ==
    \A r \in Reqs : \A i \in DOMAIN units[r] :
        LET u == units[r][i] IN
        IF u.kind = "pptx"
        THEN /\ u.fromImage <=> u.hasImage
             /\ u.fromText <=> ((u.imageRaised \/ ~u.hasImage) /\ u.hasText)
             /\ (~u.hasImage /\ ~u.hasText) =>
                    (u.notes = STREAM_APPEARS_EMPTY /\ u.ncalls = 0)
        ELSE u.fromImage /\ ~u.fromText

C6_Witness ==
    \E r \in Reqs : \E i \in DOMAIN units[r] :
        units[r][i].kind = "pptx" /\ units[r][i].imageRaised /\ units[r][i].fromText

OnlyPictures(shapes) ==
    shapes # <<>> /\ \A i \in DOMAIN shapes : shapes[i].type = "picture"
OnlyTextBoxes(shapes) ==
    /\ shapes # <<>>
    /\ \A i \in DOMAIN shapes : shapes[i].type = "text" /\ strip(shapes[i].text) # <<>>
ShapesOf(r, u) == J(r).prs.slides[u.unit + 1].shapes

\* C7 as stated: a picture-only slide is narrated by fromImage, a slide of
\* non-empty text boxes by fromText.
C7_ScenarioAsStated ==
    \A r \in Reqs : \A i \in DOMAIN units[r] :
        LET u == units[r][i] IN
        u.kind = "pptx" =>
            /\ OnlyPictures(ShapesOf(r, u)) => u.by = "image"
            /\ OnlyTextBoxes(ShapesOf(r, u)) => u.by = "text"

\* C7: a picture-only slide is narrated by fromImage when a picture of it
\* can be drawn and the call does not raise, and gets the "appears empty"
\* placeholder otherwise; a slide of non-empty text boxes is narrated by
\* fromImage too when a text box of it can be drawn and the call does not
\* raise, and by fromText on its text only otherwise.
C7_Scenario ==
    \A r \in Reqs : \A i \in DOMAIN units[r] :
        LET u == units[r][i]
            sh == ShapesOf(r, u)
        IN  u.kind = "pptx" =>
            /\ OnlyPictures(sh) =>
                  /\ u.fromImage <=> \E k \in DOMAIN sh : ~sh[k].bad
                  /\ u.by = "image" <=> (u.fromImage /\ ~u.imageRaised)
                  /\ ~u.fromText
                  /\ u.by # "image" => u.notes = STREAM_APPEARS_EMPTY
            /\ OnlyTextBoxes(sh) =>
                  /\ u.fromImage <=> \E k \in DOMAIN sh : ~sh[k].bad /\ ~sh[k].unreadable
                  /\ u.by = "image" <=> (u.fromImage /\ ~u.imageRaised)
                  /\ u.fromText <=> (u.by # "image" /\ u.hasText)

C7_Witness ==
    \E r \in Reqs : \E i \in DOMAIN units[r] :
        /\ units[r][i].kind = "pptx"
        /\ OnlyTextBoxes(ShapesOf(r, units[r][i]))
        /\ units[r][i].by = "image"

\* C8 as stated: with the style and tone the blocking form uses, every unit
\* of a completed job has the notes the blocking form gives it.
C8_SameNotes ==
    \A r \in Reqs :
        (Completed(r) /\ J(r).style = "standard" /\ J(r).tone = "professional") =>
            \A i \in DOMAIN units[r] : units[r][i].notes = units[r][i].blocking

FatalAsStated == {"add_slide", "add_picture", "pdf_notes", "pptx_notes", "save"}
Fatal == {"add_slide", "add_picture", "pdf_notes", "save"}
Aborted(r) ==
    /\ J(r).pc \in {"except", "outer_except", "done"}
    /\ "complete" \notin Range(Kinds(r))
    /\ Done(r) => Kind(Last(events[r])) = "error"

C10_NoOutputAfterError ==
    \A r \in Reqs : (Failed(r) /\ J(r).out # "") => ~Exists(outputDir[J(r).out])


\* C11 as stated: every event has a status field with one of the five
\* values, and the last event of a failed job has status error and the
\* message.
StatusValues == {"started", "processing", "saving", "complete", "error"}
C11_StatusOnEveryEvent ==
    \A r \in Reqs : \A i \in DOMAIN events[r] :
        /\ "status" \in DOMAIN events[r][i]
        /\ events[r][i].status \in StatusValues

NoUnit(r) ==
    /\ "processing" \notin Range(Kinds(r))
    /\ calls[r] = <<>>
    /\ units[r] = <<>>
InHandlerOrDone(r) == J(r).pc \in {"except", "outer_except", "done"}

\* C12: a job whose source file cannot be opened, and a job that got past
\* the lookup and the opening of its source without a started event (the file
\* is missing or was not opened), has processed no unit: no processing event,
\* no backend call, and it ends with the error event as its only event.
C12_InputError ==
    \A r \in Reqs :
        /\ ( /\ J(r).pc \notin {"idle", "lookup"}
             /\ Exists(uploadDir[J(r).pid])
             /\ uploadDir[J(r).pid].doc.t = "corrupt" ) =>
               (NoUnit(r) /\ (J(r).pc = "open" \/ InHandlerOrDone(r)))
        /\ ( /\ J(r).pc \notin {"idle", "lookup", "open"}
             /\ "started" \notin Range(Kinds(r)) ) =>
               /\ NoUnit(r)
               /\ InHandlerOrDone(r)
               /\ Done(r) => (Len(events[r]) = 1 /\ Kind(events[r][1]) = "error")

C12_Witness ==
    \E r \in Reqs : Done(r) /\ events[r] = <<[error |-> "cannot open the document"]>>

PdfSlideOk(r, deck, i) ==
    LET sl == deck.slides[i] IN
    /\ Len(sl.shapes) = 1
    /\ sl.shapes[1].type = "picture"
    /\ sl.shapes[1].image.src = "page"
    /\ sl.shapes[1].image.idx = i - 1
    /\ sl.notes = units[r][i].notes

\* C13: the deck a completed paged-document job over N pages wrote has N
\* slides, slide i holding one picture, the rendering of page i, and the notes
\* generated for page i; while the source is still there, the picture of
\* slide i is the pixmap of page i of the source.
C13_PdfRoundTrip ==
    \A r \in Reqs :
        /\ (IsPdf(r) /\ Completed(r)) =>
              /\ Exists(outputDir[J(r).out])
              /\ Len(outputDir[J(r).out].deck.slides) = J(r).num
              /\ Len(units[r]) = J(r).num
              /\ \A i \in 1..J(r).num : PdfSlideOk(r, outputDir[J(r).out].deck, i)
        /\ (IsPdf(r) /\ J(r).pc = "cleanup" /\ Exists(uploadDir[J(r).pid])) =>
              LET doc == uploadDir[J(r).pid].doc
                  deck == outputDir[J(r).out].deck
              IN  /\ Len(deck.slides) = Len(doc.pages)
                  /\ \A i \in DOMAIN doc.pages :
                         deck.slides[i].shapes[1].image = PageImage(doc.pages[i], i - 1, SERVER_DPI)

C13_Witness ==
    \E r \in Reqs :
        /\ IsPdf(r) /\ Completed(r) /\ J(r).num = MaxUnits
        /\ Len(outputDir[J(r).out].deck.slides) = MaxUnits


Returned(fn) == call.fn = fn /\ call.done
ExpectedBand(style) ==
    IF style = "brief" THEN [duration |-> "20-30 seconds", sentences |-> "2-4 sentences"]
    ELSE IF style = "detailed"
    THEN [duration |-> "90-120 seconds", sentences |-> "8-12 sentences"]
    ELSE [duration |-> "45-60 seconds", sentences |-> "4-6 sentences"]
ExpectedTone(tone) ==
    IF tone \in DOMAIN tone_configs THEN tone_configs[tone]
    ELSE "professional and business-appropriate"

\* C14: in both entry points the request carries the band of the style when
\* the style is brief, standard or detailed and the standard band otherwise,
\* the register of the tone when the tone is one of the nine and the
\* professional register otherwise; the style and the tone never make the
\* call raise.
C14_Fallback ==
    (Returned("generate_speaker_notes") \/ Returned("generate_notes_from_text")) =>
        /\ call.ret.raised => (~call.args.g.prep \/ ~call.args.g.client)
        /\ \A i \in DOMAIN call.ret.calls :
              LET req == call.ret.calls[i] IN
              /\ req.duration = ExpectedBand(call.args.note_style).duration
              /\ req.sentences = ExpectedBand(call.args.note_style).sentences
              /\ req.tone = ExpectedTone(call.args.note_tone)
              /\ call.args.note_style \in {"brief", "standard", "detailed"} =>
                     req.detail = style_configs[call.args.note_style].detail

C14_Witness ==
    /\ Returned("generate_notes_from_text")
    /\ call.args.note_style = "epic"
    /\ call.args.note_tone = "sarcastic"
    /\ Len(call.ret.calls) = 1
    /\ call.ret.calls[1].duration = "45-60 seconds"

C16_AspectEqualFills ==
    (Returned("Placement") /\ 9 * call.args.img_width = 16 * call.args.img_height) =>
        call.ret = [left |-> 0, top |-> 0, width |-> SLIDE_WIDTH, height |-> SLIDE_HEIGHT]

C16_Witness ==
    /\ Returned("Placement")
    /\ call.args.img_width = 32 /\ call.args.img_height = 18
    /\ call.ret.width = SLIDE_WIDTH /\ call.ret.height = SLIDE_HEIGHT

\* d = floor(n / 2)
IsHalf(d, n) == 2 * d <= n /\ n < 2 * d + 2

\* C17: an image wider than the slide in aspect ratio gets the width of the
\* slide, the height floor(W * h / w), left = 0 and top = floor((H - height)
\* / 2); any other image gets the height of the slide, the width floor(H * w
\* / h), top = 0 and left = floor((W - width) / 2); the rectangle lies within
\* the slide.
C17_AspectFit ==
    Returned("Placement") =>
        LET w == call.args.img_width
            h == call.args.img_height
            W == call.args.slide_width
            H == call.args.slide_height
            b == call.ret
        IN  /\ IF w * H > W * h
               THEN /\ b.width = W
                    /\ b.height * w <= W * h /\ W * h < (b.height + 1) * w
                    /\ b.left = 0
                    /\ IsHalf(b.top, H - b.height)
               ELSE /\ b.height = H
                    /\ b.width * h <= H * w /\ H * w < (b.width + 1) * h
                    /\ b.top = 0
                    /\ IsHalf(b.left, W - b.width)
            /\ b.left >= 0 /\ b.top >= 0
            /\ b.left + b.width <= W /\ b.top + b.height <= H

C17_Witness ==
    /\ Returned("Placement")
    /\ call.args.img_width = 7 /\ call.args.img_height = 3
    /\ call.ret.width = SLIDE_WIDTH
    /\ call.ret.top > 0


NProcessing(r) == Cardinality({i \in DOMAIN events[r] : Kind(events[r][i]) = "processing"})
HasSlide(r, k) == k <= Len(J(r).prs.slides)
NotesOf(r, k) == J(r).prs.slides[k].notes

\* the first processing event of unit k shows the visual of unit k, if any
FirstEventShows(r, k) ==
    LET e == events[r][2 * k] IN
    /\ Kind(e) = "processing"
    /\ e.current_slide = k
    /\ ~IsNone(e.slide_image) => e.slide_image.of.idx = k - 1

\* what holds of the order of the steps of unit k whoever attaches the notes
\* (np is the number of processing events emitted)
OrderOfUnit(r, k, np) ==
    /\ np >= 2 * k - 1 => FirstEventShows(r, k)
    /\ Len(units[r]) >= k => np >= 2 * k - 1
    /\ (HasSlide(r, k) /\ NotesOf(r, k) # <<>>) =>
           (Len(units[r]) >= k /\ NotesOf(r, k) = units[r][k].notes)
    /\ np >= 2 * k => Len(units[r]) >= k

C19_Sequential ==
    \A r \in Reqs :
        LET ks == Kinds(r)
            np == Cardinality({p \in DOMAIN ks : ks[p] = "processing"})
        IN
        /\ np > 0 => ks[1] = "started"
        /\ \A p \in 2..Len(ks) :
              ks[p] = "processing" =>
                  /\ events[r][p].current_slide = p \div 2
                  /\ events[r][p].total_slides = events[r][1].total_slides
        /\ \A k \in DOMAIN units[r] :
              /\ units[r][k].unit = k - 1
              /\ np >= 2 * k - 1
        /\ Len(calls[r]) <= 2 * Len(units[r])
        /\ \A k \in 1..Len(J(r).prs.slides) :
              NotesOf(r, k) # <<>> => np >= 2 * (k - 1)

C19_Witness ==
    \E r \in Reqs :
        /\ NProcessing(r) = 4
        /\ events[r][5].current_slide = 2
        /\ Len(units[r]) = 2
        /\ NotesOf(r, 2) # <<>>

\* C20: an existing-deck job keeps the slides of its source: as long as the
\* source is there, the deck in memory and the deck written have the slides of
\* the source, in number, order and shapes, and the slide size of the source;
\* the number of slides is the total of the started event throughout.
C20_DeckFrame ==
    \A r \in Reqs :
        (J(r).ext = ".pptx" /\ events[r] # <<>> /\ Kind(events[r][1]) = "started") =>
            /\ Len(J(r).prs.slides) = J(r).num
            /\ J(r).num = events[r][1].total_slides
            /\ Exists(outputDir[J(r).out]) =>
                   \A i \in 1..J(r).num :
                       outputDir[J(r).out].deck.slides[i].shapes = J(r).prs.slides[i].shapes
            /\ Exists(uploadDir[J(r).pid]) =>
                  LET doc == uploadDir[J(r).pid].doc IN
                  /\ Len(doc.slides) = J(r).num
                  /\ \A i \in 1..J(r).num : J(r).prs.slides[i].shapes = doc.slides[i].shapes
                  /\ J(r).prs.slide_width = doc.slide_width
                  /\ J(r).prs.slide_height = doc.slide_height
                  /\ Exists(outputDir[J(r).out]) =>
                        /\ Len(outputDir[J(r).out].deck.slides) = Len(doc.slides)
                        /\ \A i \in 1..J(r).num :
                               outputDir[J(r).out].deck.slides[i].shapes = doc.slides[i].shapes

C20_Witness ==
    \E r \in Reqs :
        /\ J(r).ext = ".pptx" /\ J(r).pc = "cleanup" /\ J(r).num = 2
        /\ Exists(uploadDir[J(r).pid]) /\ Exists(outputDir[J(r).out])
        /\ outputDir[J(r).out].deck.slides[2].shapes # <<>>
        /\ outputDir[J(r).out].deck.slides[2].notes # <<>>

\* ---------------------------------------------------------------- C21
\* The shapes of the slide a render call was given (none when the index is
\* outside the deck), and the ones that are handled to the end and put
\* something on the canvas.
CallShapes ==
    IF call.args.slide_idx + 1 > Len(call.args.prs.slides) THEN <<>>
    ELSE call.args.prs.slides[call.args.slide_idx + 1].shapes
HandlingRaises(s) == s.bad \/ s.unreadable
Contributes(s) ==
    /\ ~HandlingRaises(s)
    /\ \/ s.type \in {"picture", "table"}
       \/ s.type = "text" /\ strip(s.text) # <<>>

\* C21: a call of render_slide_as_image always returns, None or an image; a
\* shape whose handling raises is skipped and every other shape, before and
\* after it, is still handled: the image holds exactly the shapes that were
\* handled without error and contributed content, in slide order, and None is
\* returned exactly when there is no such shape.
C21_SkipOnlyFailing ==
    Returned("render_slide_as_image") =>
        LET shapes == CallShapes
            good == {i \in 1..Len(shapes) : Contributes(shapes[i])}
        IN  /\ IsNone(call.ret) <=> good = {}
            /\ ~IsNone(call.ret) =>
                  /\ call.ret.t = "image"
                  /\ {d.shape : d \in Range(call.ret.drawn)} = good
                  /\ Len(call.ret.drawn) = Cardinality(good)
                  /\ \A a, b \in 1..Len(call.ret.drawn) :
                        a < b => call.ret.drawn[a].shape < call.ret.drawn[b].shape

\* a failing shape between two sound ones: both sound ones are on the image
C21_Witness ==
    /\ Returned("render_slide_as_image")
    /\ Len(CallShapes) = 3
    /\ Contributes(CallShapes[1])
    /\ HandlingRaises(CallShapes[2])
    /\ Contributes(CallShapes[3])
    /\ ~IsNone(call.ret)
    /\ {d.shape : d \in Range(call.ret.drawn)} = {1, 3}

\* ---------------------------------------------------------------- C23
Min(a, b) == IF a < b THEN a ELSE b

\* C23: of a table of R rows of C cells, text is drawn only for cells in the
\* first min(R, 5) rows and the first min(C, 5) cells of a row, and the text
\* drawn for a cell is the first 30 characters of the cell's stripped text.
C23_TableLimits ==
    Returned("render_slide_as_image") /\ ~IsNone(call.ret) =>
        \A d \in Range(call.ret.drawn) :
            d.type = "table" =>
                LET rows == CallShapes[d.shape].cells
                    R == Len(rows)
                IN  /\ Len(d.cells) <= Min(R, 5) * 5
                    /\ \A c \in Range(d.cells) :
                          /\ c.row \in 0..(Min(R, 5) - 1)
                          /\ c.col \in 0..(Min(Len(rows[c.row + 1]), 5) - 1)
                          /\ Len(c.text) = Min(Len(strip(rows[c.row + 1][c.col + 1])), 30)
                          /\ IsPrefix(c.text, strip(rows[c.row + 1][c.col + 1]))

\* a table of 7 rows of 8 cells with long texts: 25 cells drawn, 30 characters each
C23_Witness ==
    /\ Returned("render_slide_as_image")
    /\ ~IsNone(call.ret)
    /\ \E d \in Range(call.ret.drawn) :
          /\ d.type = "table"
          /\ Len(CallShapes[d.shape].cells) = 7
          /\ Len(CallShapes[d.shape].cells[1]) = 8
          /\ Len(strip(CallShapes[d.shape].cells[1][1])) > 30
          /\ Len(d.cells) = 25
          /\ \A c \in Range(d.cells) : Len(c.text) = 30

\* ---------------------------------------------------------------- C22
\* C22: between calls of render_pdf_page_as_image no source document is open,
\* whether the call returned an image or failed.
C22_NoOpenHandle == \A r \in Reqs : J(r).handles = 0

\* ---------------------------------------------------------------- C24
\* unit k of request r has a visual representation: a page always has, a slide
\* has when one of its shapes can be drawn
HasVisual(r, k) ==
    IsPdf(r) \/ \E i \in DOMAIN J(r).prs.slides[k].shapes : Contributes(J(r).prs.slides[k].shapes[i])

\* p is a preview of the visual of unit k: at most 800 wide, the height
\* scaled by the same ratio and rounded down, the size kept when the width is
\* at most 800
IsPreviewOf(p, k) ==
    /\ p.t = "b64"
    /\ p.of.idx = k - 1
    /\ p.w <= 800
    /\ IF p.of.w <= 800 THEN p.w = p.of.w /\ p.h = p.of.h
       ELSE /\ p.w = 800
            /\ p.h * p.of.w <= p.of.h * 800
            /\ p.of.h * 800 < (p.h + 1) * p.of.w

\* the positions of the processing events of request r, ks being Kinds(r)
Processings(r, ks) == {p \in DOMAIN ks : ks[p] = "processing"}
SameUnit(r, p, q) == events[r][p].current_slide = events[r][q].current_slide

\* C24 as stated: the processing events of one unit carry the same slide_image;
\* it is a preview whenever the unit has a visual representation, and null
\* when it has none.
C24_PreviewAsStated ==
    \A r \in Reqs :
        LET ps == Processings(r, Kinds(r)) IN
        \A p \in ps :
            LET k == events[r][p].current_slide
                img == events[r][p].slide_image
            IN  /\ (p - 1) \in ps /\ SameUnit(r, p - 1, p) => events[r][p - 1].slide_image = img
                /\ IF HasVisual(r, k) THEN ~IsNone(img) /\ IsPreviewOf(img, k)
                   ELSE IsNone(img)

\* C24: the processing events of one unit carry the same slide_image; it is
\* null when the unit has no visual representation and, with a visual
\* representation, only when encoding the preview failed; otherwise it is a
\* preview of the unit's visual, at most 800 wide with the height scaled by
\* the same ratio, and of the visual's own size when that is at most 800 wide.
C24_Preview ==
    \A r \in Reqs :
        LET ps == Processings(r, Kinds(r)) IN
        \A p \in ps :
            LET k == events[r][p].current_slide
                img == events[r][p].slide_image
            IN  /\ (p - 1) \in ps /\ SameUnit(r, p - 1, p) => events[r][p - 1].slide_image = img
                /\ IF IsNone(img)
                   THEN HasVisual(r, k) => "preview" \in Range(J(r).failures)
                   ELSE HasVisual(r, k) /\ IsPreviewOf(img, k)

\* a page wider than 800 and a page of width 800, each with both of its
\* processing events carrying the preview
C24_Witness ==
    \E r \in Reqs :
        /\ IsPdf(r)
        /\ Len(events[r]) >= 5
        /\ Processings(r, Kinds(r)) = {2, 3, 4, 5}
        /\ SameUnit(r, 2, 3)
        /\ SameUnit(r, 4, 5)
        /\ ~IsNone(events[r][3].slide_image)
        /\ ~IsNone(events[r][5].slide_image)
        /\ events[r][3].slide_image.of.w > 800
        /\ events[r][3].slide_image.w = 800
        /\ events[r][5].slide_image.of.w = 800
        /\ events[r][5].slide_image.h = events[r][5].slide_image.of.h

\* ---------------------------------------------------------------- C27
\* C27: within one job every source unit leads to at most one backend call: a
\* unit whose fromImage call reached the backend makes no fromText call, no
\* two fromImage calls are for the same unit, and the job's backend calls are
\* never more than the units it has narrated, which are never more than the
\* units of the source.
C27_OneCallPerUnit ==
    \A r \in Reqs :
        /\ Len(calls[r]) <= Len(units[r])
        /\ Len(units[r]) <= J(r).num
        /\ \A i \in DOMAIN units[r] :
              /\ units[r][i].unit = i - 1
              /\ units[r][i].ncalls <= 1
              /\ units[r][i].fromImage /\ ~units[r][i].imageRaised =>
                    ~units[r][i].fromText /\ units[r][i].ncalls = 1
        /\ \A a, b \in DOMAIN calls[r] :
              a < b /\ calls[r][a].entry = "image" /\ calls[r][b].entry = "image" =>
                  calls[r][a].input.idx < calls[r][b].input.idx

\* two units, one narrated from the image, the other from the text after the
\* fromImage entry gave up before it reached the backend: two calls in all
C27_Witness ==
    \E r \in Reqs :
        /\ Len(units[r]) = 2
        /\ Len(calls[r]) = 2
        /\ \E i \in DOMAIN units[r] :
              units[r][i].imageRaised /\ units[r][i].fromText /\ units[r][i].ncalls = 1
        /\ \E i \in DOMAIN units[r] :
              units[r][i].fromImage /\ ~units[r][i].imageRaised /\ units[r][i].ncalls = 1

\* ---------------------------------------------------------------- C25
\* C25: whatever the interleaving of the requests, once a request has emitted
\* complete with filename F, the file F exists in the output directory and is
\* the whole deck that this request saved.
C25_OwnOutput ==
    \A r \in Reqs :
        Completed(r) =>
            /\ Exists(outputDir[Last(events[r]).filename])
            /\ outputDir[Last(events[r]).filename].by = r
            /\ outputDir[Last(events[r]).filename].whole

\* ---------------------------------------------------------------- C26
\* C26: once a request for processing id P has emitted its terminal event, the
\* uploaded file of P is gone and filename_mapping has no entry for P.
C26_InputGone ==
    \A r \in Reqs :
        Done(r) =>
            /\ ~Exists(uploadDir[J(r).pid])
            /\ J(r).pid \notin DOMAIN filename_mapping

====
